---- MODULE Spec2Model ----
(***************************************************************************)
(* Morton (Z-order) codec of include/morton.h.                             *)
(*                                                                         *)
(* A machine word is modelled as the set of the positions of its set bits  *)
(* (position 0 is the least significant bit), so that 32- and 64-bit words *)
(* keep their exact width: a left shift drops every bit that leaves the    *)
(* word, | is set union and & is set intersection.                         *)
(***************************************************************************)
EXTENDS Integers, Naturals, FiniteSets, Sequences, TLC

\* ------------------------------------------------------------------ bounds
\* Largest number of bits in which an encoder input differs from its base
\* pattern.
MaxBits == 1
\* The same for a single component encoded on its own.
MaxAxisBits == 3
\* The same for a code handed directly to the decoder.
MaxCodeBits == 2
\* Largest number of bits flipped one by one to get the second input of a
\* pair of encoder inputs from the first.
MaxDiff == 1

\* ------------------------------------------------------- machine words
Bits8  == 0..7
Bits32 == 0..31
Bits64 == 0..63

\* value << k in a word of the given width
Shl(s, k, width) == {i + k : i \in {j \in s : j + k < width}}
\* value >> k
Shr(s, k) == {i - k : i \in {j \in s : j >= k}}

\* The set bits of a hexadecimal literal, given as its digits, most
\* significant digit first.
RECURSIVE HexBits(_)
HexBits(digits) ==
    IF digits = << >> THEN {}
    ELSE LET n == Len(digits)
             d == digits[n]
         IN  {j \in 0..3 : (d \div (2 ^ j)) % 2 = 1}
               \cup {i + 4 : i \in HexBits(SubSeq(digits, 1, n - 1))}

\* ------------------------------------------------------- coordinate_t
x == 0
y == 1
z == 2
coordinate_t == {x, y, z}

\* ------------------------------------------------------- table builder
\* masks[] with the level-1 constant 0x49249249 mistyped as 0x49249241
masks_typo ==
    0 :> {}
      @@ 1 :> HexBits(<<4, 9, 2, 4, 9, 2, 4, 1>>)
      @@ 2 :> HexBits(<<12, 3, 0, 12, 3, 0, 12, 3>>)
      @@ 3 :> HexBits(<<0, 15, 0, 0, 15, 0, 0, 15>>)
      @@ 4 :> HexBits(<<15, 15, 0, 0, 0, 0, 15, 15>>)

\* constexpr uint32_t masks[] = {0, 0x49249249, 0xC30C30C3, 0x0F00F00F, 0xFF0000FF}
masks ==
    0 :> {}
      @@ 1 :> HexBits(<<4, 9, 2, 4, 9, 2, 4, 9>>)
      @@ 2 :> HexBits(<<12, 3, 0, 12, 3, 0, 12, 3>>)
      @@ 3 :> HexBits(<<0, 15, 0, 0, 15, 0, 0, 15>>)
      @@ 4 :> HexBits(<<15, 15, 0, 0, 0, 0, 15, 15>>)

\* one level of interleave(uint32_t, int): (x | x << (1 << level)) & masks[level]
interleave_step(w, level) ==
    (w \cup Shl(w, 2 ^ level, 32)) \cap masks[level]

RECURSIVE interleave_rec(_, _)
interleave_rec(w, level) ==
    IF level = 0 THEN w
    ELSE interleave_rec(interleave_step(w, level), level - 1)

\* interleave(uint8_t)
interleave(b) == interleave_rec(b \cap Bits8, 4)

\* the iterative form given in the comment
interleave_doc(b) ==
    LET x0 == b \cap Bits8
        x1 == (x0 \cup Shl(x0, 16, 32)) \cap HexBits(<<15, 15, 0, 0, 0, 0, 15, 15>>)
        x2 == (x1 \cup Shl(x1, 8, 32))  \cap HexBits(<<0, 15, 0, 0, 15, 0, 0, 15>>)
        x3 == (x2 \cup Shl(x2, 4, 32))  \cap HexBits(<<12, 3, 0, 12, 3, 0, 12, 3>>)
        x4 == (x3 \cup Shl(x3, 2, 32))  \cap HexBits(<<4, 9, 2, 4, 9, 2, 4, 9>>)
    IN  x4

\* ------------------------------------------------------------- encoder
\* table[] without the shift by the axis offset
table_unshifted == [S \in coordinate_t |-> [idx \in SUBSET Bits8 |-> interleave(idx)]]

\* static constexpr uint32_t table[] = { interleave(uint8_t(Idx)) << uint8_t(S) ... }
table == [S \in coordinate_t |-> [idx \in SUBSET Bits8 |-> Shl(interleave(idx), S, 32)]]

\* morton<S> with the high byte shifted by 47 instead of 48
morton_S_shift47(S, value) ==
    LET low    == value \cap Bits8
        middle == Shr(value, 8) \cap Bits8
        high   == Shr(value, 16) \cap Bits8
    IN  Shl(table[S][high], 47, 64)
          \cup Shl(table[S][middle], 24, 64)
          \cup table[S][low]

\* morton<S> with the high byte shifted by 40 instead of 48
morton_S_shift40(S, value) ==
    LET low    == value \cap Bits8
        middle == Shr(value, 8) \cap Bits8
        high   == Shr(value, 16) \cap Bits8
    IN  Shl(table[S][high], 40, 64)
          \cup Shl(table[S][middle], 24, 64)
          \cup table[S][low]

\* morton<S> with the low and the middle byte exchanged
morton_S_swapped(S, value) ==
    LET low    == value \cap Bits8
        middle == Shr(value, 8) \cap Bits8
        high   == Shr(value, 16) \cap Bits8
    IN  Shl(table[S][high], 48, 64)
          \cup Shl(table[S][low], 24, 64)
          \cup table[S][middle]

\* morton<S>(uint32_t value, index_sequence)
morton_S(S, value) ==
    LET low    == value \cap Bits8
        middle == Shr(value, 8) \cap Bits8
        high   == Shr(value, 16) \cap Bits8
    IN  Shl(table[S][high], 48, 64)
          \cup Shl(table[S][middle], 24, 64)
          \cup table[S][low]

\* morton(glm::u32vec3) with the y and z template arguments exchanged
morton_yz(c) == morton_S(x, c[1]) \cup morton_S(z, c[2]) \cup morton_S(y, c[3])

\* morton(glm::u32vec3)
morton(c) == morton_S(x, c[1]) \cup morton_S(y, c[2]) \cup morton_S(z, c[3])

\* ------------------------------------------------------------- decoder
\* The masks of unmorton<S> with the first one lacking its top digit
\* (0x0249249249249249)
unmorton_masks_short ==
    <<HexBits(<<0, 2, 4, 9, 2, 4, 9, 2, 4, 9, 2, 4, 9, 2, 4, 9>>),
      HexBits(<<3, 0, 12, 3, 0, 12, 3, 0, 12, 3, 0, 12, 3, 0, 12, 3>>),
      HexBits(<<15, 0, 0, 15, 0, 0, 15, 0, 0, 15, 0, 0, 15, 0, 0, 15>>),
      HexBits(<<0, 0, 15, 15, 0, 0, 0, 0, 15, 15, 0, 0, 0, 0, 15, 15>>),
      HexBits(<<15, 15, 15, 15, 0, 0, 0, 0, 0, 0, 0, 0, 15, 15, 15, 15>>),
      HexBits(<<0, 0, 0, 0, 0, 0, 0, 0, 15, 15, 15, 15, 15, 15, 15, 15>>)>>

\* The six masks of unmorton<S>, in the order they are applied:
\* 0x9249249249249249, 0x30C30C30C30C30C3, 0xF00F00F00F00F00F,
\* 0x00FF0000FF0000FF, 0xFFFF00000000FFFF, 0x00000000FFFFFFFF
unmorton_masks ==
    <<HexBits(<<9, 2, 4, 9, 2, 4, 9, 2, 4, 9, 2, 4, 9, 2, 4, 9>>),
      HexBits(<<3, 0, 12, 3, 0, 12, 3, 0, 12, 3, 0, 12, 3, 0, 12, 3>>),
      HexBits(<<15, 0, 0, 15, 0, 0, 15, 0, 0, 15, 0, 0, 15, 0, 0, 15>>),
      HexBits(<<0, 0, 15, 15, 0, 0, 0, 0, 15, 15, 0, 0, 0, 0, 15, 15>>),
      HexBits(<<15, 15, 15, 15, 0, 0, 0, 0, 0, 0, 0, 0, 15, 15, 15, 15>>),
      HexBits(<<0, 0, 0, 0, 0, 0, 0, 0, 15, 15, 15, 15, 15, 15, 15, 15>>)>>

\* unmorton<S> without the shift that selects the component
unmorton_S_noshift(S, m) ==
    LET x0 == m
        x1 == x0 \cap unmorton_masks[1]
        x2 == (x1 \cup Shr(x1, 2))  \cap unmorton_masks[2]
        x3 == (x2 \cup Shr(x2, 4))  \cap unmorton_masks[3]
        x4 == (x3 \cup Shr(x3, 8))  \cap unmorton_masks[4]
        x5 == (x4 \cup Shr(x4, 16)) \cap unmorton_masks[5]
        x6 == (x5 \cup Shr(x5, 32)) \cap unmorton_masks[6]
    IN  x6 \cap Bits32

\* unmorton<S> with the fifth stage shifting by 8 instead of 16
unmorton_S_stage5(S, m) ==
    LET x0 == Shr(m, S)
        x1 == x0 \cap unmorton_masks[1]
        x2 == (x1 \cup Shr(x1, 2))  \cap unmorton_masks[2]
        x3 == (x2 \cup Shr(x2, 4))  \cap unmorton_masks[3]
        x4 == (x3 \cup Shr(x3, 8))  \cap unmorton_masks[4]
        x5 == (x4 \cup Shr(x4, 8))  \cap unmorton_masks[5]
        x6 == (x5 \cup Shr(x5, 32)) \cap unmorton_masks[6]
    IN  x6 \cap Bits32

\* unmorton<S>(uint64_t)
unmorton_S(S, m) ==
    LET x0 == Shr(m, S)
        x1 == x0 \cap unmorton_masks[1]
        x2 == (x1 \cup Shr(x1, 2))  \cap unmorton_masks[2]
        x3 == (x2 \cup Shr(x2, 4))  \cap unmorton_masks[3]
        x4 == (x3 \cup Shr(x3, 8))  \cap unmorton_masks[4]
        x5 == (x4 \cup Shr(x4, 16)) \cap unmorton_masks[5]
        x6 == (x5 \cup Shr(x5, 32)) \cap unmorton_masks[6]
    IN  x6 \cap Bits32

\* unmorton(uint64_t)
unmorton(m) == <<unmorton_S(x, m), unmorton_S(y, m), unmorton_S(z, m)>>

\* ------------------------------------------------------- input patterns
\* A word with every bit below n set.
Ones(n) == 0..(n - 1)

\* a ^ b
Xor(a, b) == (a \ b) \cup (b \ a)

\* The sets of at most k positions among 0..(n - 1).
RECURSIVE Sparse(_, _)
Sparse(n, k) ==
    IF k = 0 THEN {{}}
    ELSE LET prev == Sparse(n, k - 1)
         IN  prev \cup {s \cup {p} : s \in prev, p \in 0..(n - 1)}

\* A set of positions among 0..95 read as three 32-bit components.
Triple(s) == [a \in 1..3 |-> {p - 32 * (a - 1) : p \in {q \in s : (q \div 32) + 1 = a}}]

XorTriple(c, d) == [a \in 1..3 |-> Xor(c[a], d[a])]

\* The triple c with bit i of component a flipped.
Toggle(c, a, i) == [c EXCEPT ![a] = Xor(c[a], {i})]

\* Number of bits in which two triples differ.
Dist(c, d) == Cardinality(Xor(c[1], d[1])) + Cardinality(Xor(c[2], d[2]))
                + Cardinality(Xor(c[3], d[3]))

Uniform(n) == [a \in 1..3 |-> Ones(n)]
Zero3 == Uniform(0)

\* Base patterns: each component is zero, the largest in-range value
\* 0x1FFFFF or 0xFFFFFFFF.
Patterns == {<<p, q, r>> : p \in {Ones(0), Ones(21), Ones(32)},
                           q \in {Ones(0), Ones(21), Ones(32)},
                           r \in {Ones(0), Ones(21), Ones(32)}}

\* Encoder inputs: a base pattern with at most MaxBits bits flipped.
Inputs == {XorTriple(base, Triple(s)) : base \in Patterns, s \in Sparse(96, MaxBits)}

\* Single components: zero or 0xFFFFFFFF with at most MaxAxisBits bits
\* flipped, on one axis, the two other components zero.
AxisInputs == {[Zero3 EXCEPT ![a] = Xor(base, s)] :
                 a \in 1..3, base \in {Ones(0), Ones(32)}, s \in Sparse(32, MaxAxisBits)}

\* Decoder inputs: zero or all 64 bits, with at most MaxCodeBits bits flipped.
Codes == {Xor(base, s) : base \in {Ones(0), Ones(64)}, s \in Sparse(64, MaxCodeBits)}

\* The triple c with bits 0-7 of component a replaced by the byte.
WithLow(c, a, byte) == [c EXCEPT ![a] = (c[a] \ Bits8) \cup byte]

\* ------------------------------------------------------------ the codec
VARIABLES
    pc,      \* what has been computed so far
    v,       \* encoder input
    w,       \* second encoder input of a pair
    code,    \* morton(v), or the decoder's input
    code2,   \* morton(w), or the re-encoded decoder output
    dec,     \* unmorton(code)
    b,       \* table index whose entry is being built
    level,   \* remaining levels of interleave(uint32_t, int)
    acc      \* its argument x at that level

vars == <<pc, v, w, code, code2, dec, b, level, acc>>

Idle == /\ w = Zero3 /\ code2 = {} /\ dec = Zero3
        /\ b = {} /\ level = 0 /\ acc = {}

\* --- encode, then decode
Init ==
    /\ pc = "input"
    /\ v \in Inputs
    /\ code = {}
    /\ Idle

InitAxis ==
    /\ pc = "input"
    /\ v \in AxisInputs
    /\ code = {}
    /\ Idle

\* code = morton(v)
Encode ==
    /\ pc = "input"
    /\ code' = morton(v)
    /\ pc' = "encoded"
    /\ UNCHANGED <<v, w, code2, dec, b, level, acc>>

\* dec = unmorton(code)
Decode ==
    /\ pc = "encoded"
    /\ dec' = unmorton(code)
    /\ pc' = "decoded"
    /\ UNCHANGED <<v, w, code, code2, b, level, acc>>

Next == Encode \/ Decode

Spec == Init /\ [][Next]_vars

SpecAxis == InitAxis /\ [][Next]_vars

\* --- decode, then encode
InitDec ==
    /\ pc = "given"
    /\ code \in Codes
    /\ v = Zero3
    /\ Idle

\* dec = unmorton(code) of an arbitrary 64-bit word
Unpack ==
    /\ pc = "given"
    /\ dec' = unmorton(code)
    /\ pc' = "unpacked"
    /\ UNCHANGED <<v, w, code, code2, b, level, acc>>

\* code2 = morton(dec)
Repack ==
    /\ pc = "unpacked"
    /\ code2' = morton(dec)
    /\ pc' = "repacked"
    /\ UNCHANGED <<v, w, code, dec, b, level, acc>>

NextDec == Unpack \/ Repack

SpecDec == InitDec /\ [][NextDec]_vars

\* --- two inputs encoded side by side
InitPair ==
    /\ pc = "pair"
    /\ v \in Patterns
    /\ w = v
    /\ code = {} /\ code2 = {} /\ dec = Zero3
    /\ b = {} /\ level = 0 /\ acc = {}

\* choose the second input: flip one more bit of it
Flip(a, i) ==
    /\ pc = "pair"
    /\ Dist(v, w) < MaxDiff
    /\ i \notin Xor(v[a], w[a])
    /\ w' = Toggle(w, a, i)
    /\ UNCHANGED <<pc, v, code, code2, dec, b, level, acc>>

\* choose the second input: another low byte in one component
SetLow(a, byte) ==
    /\ pc = "pair"
    /\ w = v
    /\ byte # v[a] \cap Bits8
    /\ w' = WithLow(v, a, byte)
    /\ pc' = "chosen"
    /\ UNCHANGED <<v, code, code2, dec, b, level, acc>>

\* code = morton(v), code2 = morton(w)
EncodePair ==
    /\ pc \in {"pair", "chosen"}
    /\ code' = morton(v)
    /\ code2' = morton(w)
    /\ pc' = "paired"
    /\ UNCHANGED <<v, w, dec, b, level, acc>>

NextPair ==
    \/ \E a \in 1..3, i \in Bits32 : Flip(a, i)
    \/ \E a \in 1..3, byte \in SUBSET Bits8 : SetLow(a, byte)
    \/ EncodePair

SpecPair == InitPair /\ [][NextPair]_vars

\* --- building one table entry
InitTable ==
    /\ pc = "table"
    /\ b \in SUBSET Bits8
    /\ level = 4
    /\ acc = b
    /\ v = Zero3 /\ w = Zero3 /\ code = {} /\ code2 = {} /\ dec = Zero3

\* one call of interleave(uint32_t x, int level) with level > 0
InterleaveLevel ==
    /\ pc = "table"
    /\ level > 0
    /\ acc' = interleave_step(acc, level)
    /\ level' = level - 1
    /\ UNCHANGED <<pc, v, w, code, code2, dec, b>>

\* the call with level == 0 returns x
InterleaveReturn ==
    /\ pc = "table"
    /\ level = 0
    /\ pc' = "built"
    /\ UNCHANGED <<v, w, code, code2, dec, b, level, acc>>

NextTable == InterleaveLevel \/ InterleaveReturn

SpecTable == InitTable /\ [][NextTable]_vars

\* ------------------------------------------------------------ properties
InRange(c) == \A a \in 1..3 : c[a] \subseteq Ones(21)

\* The reference interleave: bit i of component a is bit 3 * i + a - 1.
Interleaved(c) == UNION {{3 * i + (a - 1) : i \in c[a]} : a \in 1..3}

\* A byte with its bits three positions apart.
Spread(byte) == {3 * i : i \in byte}

\* The two triples differ in bits 0-7 of one component at most.
DifferOnlyLow(c, d) ==
    \E a \in 1..3 : /\ Xor(c[a], d[a]) \subseteq Bits8
                    /\ \A o \in 1..3 \ {a} : c[o] = d[o]

\* C1: decoding the code of a triple whose components are all below 2^21
\* gives the triple back.
RoundTrip == pc = "decoded" /\ InRange(v) => dec = v

RoundTripWitness == pc = "decoded" /\ v = Uniform(21) /\ dec = v

\* C2: for components below 2^21 the code is the reference interleave: bit
\* 3 * i + a of the code is bit i of the component of axis offset a, and no
\* other bit is set.
BitLayout == pc = "encoded" /\ InRange(v) => code = Interleaved(v)

BitLayoutWitness ==
    /\ pc = "encoded" /\ InRange(v)
    /\ v[1] # {} /\ v[2] # {} /\ 20 \in v[3]
    /\ 62 \in code

\* C3: two distinct triples with all components below 2^21 have distinct
\* codes.
Injective ==
    pc = "paired" /\ InRange(v) /\ InRange(w) /\ v # w => code # code2

InjectiveWitness ==
    /\ pc = "paired" /\ InRange(v) /\ InRange(w)
    /\ v # w /\ v # Zero3 /\ w # Zero3
    /\ code # code2

\* C4: bit 63 of the code is 0 for every encoder input.
Bit63Clear == pc \in {"encoded", "decoded"} => 63 \notin code

\* C5: a component encoded alone on axis offset a sets only bits at
\* positions congruent to a modulo 3, whatever its 32 bits are.
AxisIsolation ==
    pc = "encoded" =>
        \A a \in 1..3 :
            (\A o \in 1..3 \ {a} : v[o] = {}) => \A p \in code : p % 3 = a - 1

AxisIsolationWitness ==
    /\ pc = "encoded"
    /\ v[1] = {} /\ v[3] = {} /\ {20, 21, 22} \subseteq v[2]
    /\ 61 \in code

\* C6: a triple with a component of 2^21 or more has the same code as a
\* different triple (the one with bit 22 or bit 23 of one component flipped).
Aliasing ==
    pc = "encoded" /\ ~InRange(v) =>
        \E a \in 1..3, i \in 22..23 :
            /\ Toggle(v, a, i) # v
            /\ morton(Toggle(v, a, i)) = code

AliasingWitness ==
    /\ pc = "encoded"
    /\ v = [Zero3 EXCEPT ![1] = {21}]
    /\ code = {63}
    /\ morton(Toggle(v, 1, 22)) = code

\* C7: two inputs that differ only in bits 0-7 of one component have codes
\* that agree on bits 24-63.
Locality ==
    pc = "paired" /\ DifferOnlyLow(v, w) => code \ Ones(24) = code2 \ Ones(24)

LocalityWitness ==
    /\ pc = "paired" /\ DifferOnlyLow(v, w)
    /\ Dist(v, w) > 4 /\ code # code2
    /\ code \ Ones(24) # {}

\* C8: interleave(b) is the byte b with bit i moved to bit 3 * i and every
\* other bit zero, and equals the iterative version of the comment.
TableEntry ==
    pc = "built" =>
        /\ acc = Spread(b)
        /\ acc = interleave_doc(b)
        /\ table[x][b] = acc

TableEntryWitness == pc = "built" /\ b = Bits8 /\ 21 \in acc /\ Cardinality(acc) = 8

\* C9: decoding the code of any triple gives x mod 2^22, y mod 2^21 and
\* z mod 2^21, and the code does not depend on bits 24-31 of a component.
Truncation ==
    /\ pc = "decoded" =>
           dec = <<v[1] \cap Ones(22), v[2] \cap Ones(21), v[3] \cap Ones(21)>>
    /\ pc = "encoded" => code = morton([a \in 1..3 |-> v[a] \cap Ones(24)])

TruncationWitness ==
    /\ pc = "decoded" /\ v = Uniform(32)
    /\ dec = <<Ones(22), Ones(21), Ones(21)>>

\* C10: encoding the triple decoded from any 64-bit word gives the word
\* back, and the decoded components are below 2^22, 2^21 and 2^21.
ReverseRoundTrip ==
    /\ pc = "repacked" => code2 = code
    /\ pc \in {"unpacked", "repacked"} =>
           /\ dec[1] \subseteq Ones(22)
           /\ dec[2] \subseteq Ones(21)
           /\ dec[3] \subseteq Ones(21)

ReverseRoundTripWitness ==
    /\ pc = "repacked" /\ 63 \in code /\ 21 \in dec[1]
    /\ code2 = code

====
